---- MODULE Spec2Model ----
(***************************************************************************)
(* pydantic-httpx: the endpoint call pipeline (resource.py, client.py,     *)
(* async_client.py, _request_builder.py, _response_validator.py,           *)
(* validators.py) and the path formatter (endpoint.py).                    *)
(*                                                                         *)
(* Text is a sequence of symbols.  A symbol is one character ("/", "{",    *)
(* "}", "@", " ", "%", a hex digit) or an atom of unreserved characters    *)
(* ("users", "id", "x", "1"); no operation of the code splits an atom.     *)
(* An optional value is a sequence of length at most one.                  *)
(***************************************************************************)
EXTENDS Integers, Sequences, FiniteSets, TLC

VARIABLES
    decl,        \* the declared classes: client, resource, endpoint, hooks
    pc,          \* where the endpoint call stands
    kwargs,      \* the keyword arguments of the call
    params,      \* the argument set after the before hooks
    request,     \* the request _execute_request has built, if any
    sent,        \* the requests handed to the transport, in order
    response,    \* what the transport returned, if anything
    result,      \* the DataResponse of the call, if any
    outcome,     \* what the caller gets: a value or the exception raised
    trace,       \* the steps of the call, in the order they ran
    fp_pieces,   \* the pieces the template under format_path was written from
    fp_path,     \* BaseEndpoint.path of the endpoint under format_path
    fp_params,   \* the keyword arguments of the format_path call, in order
    fp_result,   \* <<>> before the call, <<outcome>> after it
    lc_client,   \* the client of the with block: sync or async
    lc_pc,       \* where the program using the client stands
    lc_state,    \* the state of the client's httpx client
    lc_requests, \* the number of requests made through the client
    lc_closes,   \* the number of close() calls the program has made
    lc_exc,      \* the exception raised in the body of the block, if any
    lc_caller,   \* the exceptions that reached the code around the client
    cls_root,    \* the library class the client classes derive from
    cls_classes, \* the client classes declared so far, in order
    cls_dicts,   \* the _resource_classes dict in each class's own __dict__
    cls_instance \* the client instance created last, if any

fpvars == <<fp_pieces, fp_path, fp_params, fp_result>>
callvars == <<decl, pc, kwargs, params, request, sent, response, result,
              outcome, trace>>
lcvars == <<lc_client, lc_pc, lc_state, lc_requests, lc_closes, lc_exc,
            lc_caller>>
clsvars == <<cls_root, cls_classes, cls_dicts, cls_instance>>
othervars == <<fpvars, lcvars, clsvars>>
vars == <<callvars, fpvars, lcvars, clsvars>>

\* no endpoint call, format_path call, client block or class statement is
\* under way
CallIdle ==
    /\ pc = "idle"
    /\ kwargs = <<>> /\ params = <<>>
    /\ request = <<>> /\ sent = <<>> /\ response = <<>> /\ result = <<>>
    /\ outcome = <<>> /\ trace = <<>>

FormatIdle ==
    fp_pieces = <<>> /\ fp_path = <<>> /\ fp_params = <<>> /\ fp_result = <<>>

LifecycleIdle ==
    /\ lc_client = "sync" /\ lc_pc = "created" /\ lc_state = "UNOPENED"
    /\ lc_requests = 0 /\ lc_closes = 0 /\ lc_exc = <<>> /\ lc_caller = <<>>

ClassesIdle ==
    /\ cls_root = "Client" /\ cls_classes = <<>> /\ cls_dicts = <<>>
    /\ cls_instance = <<>>

(***************************************************************************)
(* Text helpers                                                            *)
(***************************************************************************)
None == <<>>
Some(x) == <<x>>

RECURSIVE Flatten(_)
Flatten(ss) == IF ss = <<>> THEN <<>> ELSE Head(ss) \o Flatten(Tail(ss))

Range(s) == {s[i] : i \in DOMAIN s}

\* s[i..] starts with t
StartsWithAt(s, i, t) ==
    /\ i + Len(t) - 1 <= Len(s)
    /\ \A k \in 1..Len(t) : s[i + k - 1] = t[k]

\* str.replace(old, new): every non-overlapping occurrence, left to right
RECURSIVE ReplaceFrom(_, _, _, _)
ReplaceFrom(s, i, old, new) ==
    IF i > Len(s) THEN <<>>
    ELSE IF StartsWithAt(s, i, old)
         THEN new \o ReplaceFrom(s, i + Len(old), old, new)
         ELSE <<s[i]>> \o ReplaceFrom(s, i + 1, old, new)

Replace(s, old, new) == ReplaceFrom(s, 1, old, new)

(***************************************************************************)
(* urllib.parse.quote(text, safe="")                                       *)
(***************************************************************************)
\* the characters quote never encodes: letters, digits and "_.-~"
Unreserved == {"users", "id", "x", "y", "1", "2", "_", "-", ".", "~"}

PercentCode(c) ==
    CASE c = "/" -> <<"%", "2", "F">>
      [] c = "{" -> <<"%", "7", "B">>
      [] c = "}" -> <<"%", "7", "D">>
      [] c = "@" -> <<"%", "4", "0">>
      [] c = " " -> <<"%", "2", "0">>
      [] c = "%" -> <<"%", "2", "5">>

\* a quote that leaves every character as it is
QuoteCharNothingEncoded(c) == <<c>>

QuoteChar(c) == IF c \in Unreserved THEN <<c>> ELSE PercentCode(c)

RECURSIVE quote(_)
quote(s) == IF s = <<>> THEN <<>> ELSE QuoteChar(Head(s)) \o quote(Tail(s))

(***************************************************************************)
(* BaseEndpoint.get_path_params: re.findall(r"\{([^}]+)\}", path)          *)
(***************************************************************************)
\* the first position >= i holding "}", or 0
RECURSIVE FindClose(_, _)
FindClose(s, i) ==
    IF i > Len(s) THEN 0
    ELSE IF s[i] = "}" THEN i ELSE FindClose(s, i + 1)

RECURSIVE FindAllFrom(_, _)
FindAllFrom(s, i) ==
    IF i > Len(s) THEN <<>>
    ELSE IF s[i] = "{" /\ FindClose(s, i + 1) > i + 1
         THEN LET j == FindClose(s, i + 1)
              IN  <<SubSeq(s, i + 1, j - 1)>> \o FindAllFrom(s, j + 1)
         ELSE FindAllFrom(s, i + 1)

get_path_params(path) == FindAllFrom(path, 1)

(***************************************************************************)
(* BaseEndpoint.format_path: its keyword arguments are a sequence of       *)
(* <<name, value>> in keyword order, the names distinct                    *)
(***************************************************************************)
ParamNames(ps) == {ps[i][1] : i \in DOMAIN ps}

\* reports every required token, supplied or not
MissingParamsAllRequired(required, supplied) ==
    IF required \subseteq supplied THEN {} ELSE required

MissingParams(required, supplied) == required \ supplied

RECURSIVE SubstituteAll(_, _)
SubstituteAll(path, ps) ==
    IF ps = <<>> THEN path
    ELSE SubstituteAll(
            Replace(path, <<"{">> \o Head(ps)[1] \o <<"}">>,
                    quote(Head(ps)[2])),
            Tail(ps))

format_path(path, ps) ==
    LET required_params == get_path_params(path)
        missing_params == MissingParams(Range(required_params), ParamNames(ps))
    IN  IF missing_params # {}
        THEN [ok |-> FALSE, missing |-> missing_params, path |-> <<>>]
        ELSE [ok |-> TRUE, missing |-> {}, path |-> SubstituteAll(path, ps)]

(***************************************************************************)
(* Values of keyword arguments and of bodies.  A dict maps names to        *)
(* strings; "BAD" is a field value of the wrong type.  A model instance    *)
(* holds the values of its fields, which are valid by construction.  A     *)
(* list holds values.                                                      *)
(***************************************************************************)
EmptyMap == [k \in {} |-> ""]

Text(s) ==
    [kind |-> "text", model |-> "", text |-> s, map |-> EmptyMap, items |-> <<>>]
Dict(m) ==
    [kind |-> "dict", model |-> "", text |-> <<>>, map |-> m, items |-> <<>>]
Model(name, m) ==
    [kind |-> "model", model |-> name, text |-> <<>>, map |-> m, items |-> <<>>]
NoneValue ==
    [kind |-> "none", model |-> "", text |-> <<>>, map |-> EmptyMap,
     items |-> <<>>]
\* a JSON array, or a list of model instances
List(xs) ==
    [kind |-> "list", model |-> "", text |-> <<>>, map |-> EmptyMap, items |-> xs]

\* the dict g laid over the dict f
Merge(f, g) ==
    [k \in DOMAIN f \cup DOMAIN g |-> IF k \in DOMAIN g THEN g[k] ELSE f[k]]

Without(f, keys) == [k \in DOMAIN f \ keys |-> f[k]]

Only(f, keys) == [k \in DOMAIN f \cap keys |-> f[k]]

\* a dict of strings as keyword arguments
Lift(m) == [k \in DOMAIN m |-> Text(<<m[k]>>)]

(***************************************************************************)
(* The schema library (pydantic), as the code uses it: the fields of each  *)
(* model are all required; Model(mapping) reports one error per missing  *)
(* or invalid field and ignores other keys                                 *)
(***************************************************************************)
Fields(model) ==
    CASE model = "CreateUser" -> {"name", "email"}
      [] model = "Other" -> {"name"}
      [] model = "PageQuery" -> {"page"}
      [] model = "User" -> {"id", "name"}

\* e.errors() of Model(m), m a dict of strings
SchemaErrors(model, m) ==
    {f \in Fields(model) : f \notin DOMAIN m \/ m[f] = "BAD"}

\* e.errors() of Model(kw), kw keyword arguments
SchemaErrorsKw(model, kw) ==
    {f \in Fields(model) :
        \/ f \notin DOMAIN kw
        \/ kw[f].kind # "text"
        \/ kw[f].text = <<"BAD">>}

\* Model(m).model_dump()
Dump(model, m) == [f \in Fields(model) |-> m[f]]

\* Model(kw).model_dump(), kw keyword arguments holding text
DumpKw(model, kw) == [f \in Fields(model) |-> kw[f]]

(***************************************************************************)
(* Exceptions and results as the caller sees them                          *)
(***************************************************************************)
Outcome(kind) ==
    [kind |-> kind, param |-> "", errors |-> {}, raw |-> None,
     missing |-> {}, status |-> 0, cause |-> "", value |-> None]

\* exceptions.ValidationError(message, response, errors, raw_data)
ValidationError(param, errors, raw) ==
    [Outcome("ValidationError") EXCEPT
        !.param = param, !.errors = errors, !.raw = Some(raw)]

HTTPError(status) == [Outcome("HTTPError") EXCEPT !.status = status]

RequestError(cause) == [Outcome("RequestError") EXCEPT !.cause = cause]

Returned(value) == [Outcome("return") EXCEPT !.value = Some(value)]

\* response.DataResponse(response, data)
DataResponse(resp, data) == [response |-> resp, data |-> data]

(***************************************************************************)
(* The request handed to httpx                                             *)
(***************************************************************************)
EmptyRequest ==
    [path |-> <<>>, headers |-> EmptyMap, cookies |-> None, params |-> None,
     json |-> None, data |-> None, files |-> None, content |-> None,
     timeout |-> ""]

Built(req) == [ok |-> TRUE, req |-> req, err |-> Outcome("none")]
Failed(err) == [ok |-> FALSE, req |-> EmptyRequest, err |-> err]

\* _request_builder.build_request_params and the same lines of
\* Client._execute_request: client headers under endpoint headers, the
\* endpoint's timeout or else the client's, the endpoint's cookies
build_request_params(d, path) ==
    [EmptyRequest EXCEPT
        !.path = path,
        !.headers = Merge(d.cfg_headers, d.ep_headers),
        !.timeout = IF d.ep_timeout # None THEN d.ep_timeout[1] ELSE d.cfg_timeout,
        !.cookies = d.ep_cookies]

(***************************************************************************)
(* Client._execute_request up to the transport call (sync)                 *)
(***************************************************************************)
\* the json argument: request_model(json_data) when a model is given
SyncBody(req, kw, request_model) ==
    IF "json" \notin DOMAIN kw THEN Built(req)
    ELSE LET json_data == kw["json"] IN
         IF request_model = None
         THEN Built([req EXCEPT !.json = Some(json_data)])
         ELSE IF request_model[1] = "return_data_only" \/ json_data.kind # "dict"
         THEN Failed(Outcome("TypeError"))
         ELSE IF SchemaErrors(request_model[1], json_data.map) # {}
         THEN Failed(ValidationError("",
                        SchemaErrors(request_model[1], json_data.map),
                        json_data))
         ELSE Built([req EXCEPT
                !.json = Some(Dict(Dump(request_model[1], json_data.map)))])

\* every keyword argument but json becomes a query parameter
SyncQuery(req, kw, ep_query_model) ==
    LET query_kwargs == Without(kw, {"json"}) IN
    IF ep_query_model # None /\ DOMAIN query_kwargs # {}
    THEN IF SchemaErrorsKw(ep_query_model[1], query_kwargs) # {}
         THEN Failed(Outcome("PydanticValidationError"))
         ELSE Built([req EXCEPT
                !.params = Some(DumpKw(ep_query_model[1], query_kwargs))])
    ELSE IF DOMAIN query_kwargs # {}
    THEN Built([req EXCEPT !.params = Some(query_kwargs)])
    ELSE Built(req)

SyncBuild(d, path, request_model, kw) ==
    LET body == SyncBody(build_request_params(d, path), kw, request_model)
    IN  IF body.ok THEN SyncQuery(body.req, kw, d.ep_query_model) ELSE body

(***************************************************************************)
(* AsyncClient._execute_request up to the transport call                   *)
(***************************************************************************)
VALIDATED_BODY_PARAMS == {"json", "data"}

\* one round of the loop of validate_and_add_body_params
AddBodyParam(b, param, kw, request_model) ==
    IF ~b.ok \/ param \notin DOMAIN kw THEN b
    ELSE LET body_data == kw[param]
             put(v) == Built([b.req EXCEPT ![param] = Some(v)])
         IN
         IF request_model = None THEN put(body_data)
         ELSE IF body_data.kind = "model" /\ body_data.model = request_model[1]
         THEN put(Dict(body_data.map))
         ELSE IF body_data.kind \notin {"model", "dict"}
         THEN Failed(Outcome("TypeError"))
         ELSE IF SchemaErrors(request_model[1], body_data.map) # {}
         THEN Failed(ValidationError(param,
                        SchemaErrors(request_model[1], body_data.map),
                        body_data))
         ELSE put(Dict(Dump(request_model[1], body_data.map)))

PASSTHROUGH_BODY_PARAMS == {"files", "content"}

\* the second loop of validate_and_add_body_params: files and content go
\* into the request as they are
AddPassthrough(b, kw) ==
    IF ~b.ok THEN b
    ELSE Built([k \in DOMAIN b.req |->
                    IF k \in PASSTHROUGH_BODY_PARAMS /\ k \in DOMAIN kw
                    THEN Some(kw[k]) ELSE b.req[k]])

\* order: the iteration order of the frozenset VALIDATED_BODY_PARAMS
validate_and_add_body_params(req, kw, request_model, order) ==
    AddPassthrough(
        AddBodyParam(AddBodyParam(Built(req), order[1], kw, request_model),
                     order[2], kw, request_model),
        kw)

\* _request_builder.validate_parameter; param_data is not None
validate_parameter(param_name, param_data, validation_model) ==
    IF param_data.kind = "model"
    THEN [ok |-> TRUE, value |-> Dict(param_data.map), err |-> Outcome("none")]
    ELSE IF validation_model # None /\ param_data.kind = "dict"
    THEN IF SchemaErrors(validation_model[1], param_data.map) # {}
         THEN [ok |-> FALSE, value |-> NoneValue,
               err |-> ValidationError(param_name,
                          SchemaErrors(validation_model[1], param_data.map),
                          param_data)]
         ELSE [ok |-> TRUE,
               value |-> Dict(Dump(validation_model[1], param_data.map)),
               err |-> Outcome("none")]
    ELSE [ok |-> TRUE, value |-> param_data, err |-> Outcome("none")]

AddParams(b, kw, query_model) ==
    IF ~b.ok \/ "params" \notin DOMAIN kw THEN b
    ELSE LET v == validate_parameter("params", kw["params"], query_model) IN
         IF v.ok THEN Built([b.req EXCEPT !.params = Some(Lift(v.value.map))])
         ELSE Failed(v.err)

AddHeaders(b, kw, headers_model) ==
    IF ~b.ok \/ "headers" \notin DOMAIN kw THEN b
    ELSE LET v == validate_parameter("headers", kw["headers"], headers_model) IN
         IF v.ok
         THEN Built([b.req EXCEPT !.headers = Merge(b.req.headers, v.value.map)])
         ELSE Failed(v.err)

AddCookies(b, kw, cookies_model) ==
    IF ~b.ok \/ "cookies" \notin DOMAIN kw THEN b
    ELSE LET v == validate_parameter("cookies", kw["cookies"], cookies_model) IN
         IF v.ok THEN Built([b.req EXCEPT !.cookies = Some(v.value.map)])
         ELSE Failed(v.err)

validate_and_add_params(b, kw, query_model, path_model, headers_model, cookies_model) ==
    AddCookies(AddHeaders(AddParams(b, kw, query_model), kw, headers_model),
               kw, cookies_model)

AsyncBuild(d, path, request_model, query_model, path_model, headers_model, cookies_model, kw, order) ==
    validate_and_add_params(
        validate_and_add_body_params(build_request_params(d, path), kw,
                                     request_model, order),
        kw, query_model, path_model, headers_model, cookies_model)

(***************************************************************************)
(* After the transport call: the error policy and the response validator   *)
(***************************************************************************)
\* an error test that knows server errors only
IsErrorServerOnly(status) == status >= 500 /\ status <= 599

\* httpx.Response.is_error
is_error(status) == status >= 400 /\ status <= 599

Interpreted(dr) == [ok |-> TRUE, dr |-> dr, err |-> Outcome("none")]
NotInterpreted(err) ==
    [ok |-> FALSE, dr |-> DataResponse(None, NoneValue), err |-> err]

\* an exception of the validation that is no pydantic error: the sync client
\* wraps it in a RequestError, the async client lets it through
NotValidated(client, exc) ==
    NotInterpreted(IF client = "sync" THEN RequestError(exc)
                   ELSE [Outcome(exc) EXCEPT !.param = "response"])

\* the declared return shape list[T], and its T
IsListModel(model) == model = "list[User]"
ItemType(model) == "User"

\* a validation that goes through every element and collects the errors of
\* all the failing ones
ValidateItemsAllErrors(item_type, xs) ==
    LET failing == {i \in DOMAIN xs : xs[i].kind # "dict"
                                      \/ SchemaErrors(item_type, xs[i].map) # {}}
    IN  IF \E i \in DOMAIN xs : xs[i].kind # "dict"
        THEN [exc |-> "TypeError", errors |-> {}, items |-> <<>>]
        ELSE IF failing # {}
        THEN [exc |-> "PydanticValidationError",
              errors |-> UNION {SchemaErrors(item_type, xs[i].map) : i \in failing},
              items |-> <<>>]
        ELSE [exc |-> "", errors |-> {},
              items |-> [i \in DOMAIN xs |->
                            Model(item_type, Dump(item_type, xs[i].map))]]

\* [item_type(item) for item in data]: the elements in order, up to the first
\* one that raises
RECURSIVE ValidateItems(_, _)
ValidateItems(item_type, xs) ==
    IF xs = <<>> THEN [exc |-> "", errors |-> {}, items |-> <<>>]
    ELSE LET item == Head(xs) IN
         IF item.kind # "dict"
         THEN [exc |-> "TypeError", errors |-> {}, items |-> <<>>]
         ELSE IF SchemaErrors(item_type, item.map) # {}
         THEN [exc |-> "PydanticValidationError",
               errors |-> SchemaErrors(item_type, item.map), items |-> <<>>]
         ELSE LET rest == ValidateItems(item_type, Tail(xs)) IN
              IF rest.exc # "" THEN rest
              ELSE [rest EXCEPT
                      !.items = <<Model(item_type, Dump(item_type, item.map))>>
                                \o rest.items]

\* the list branch of _validate_data_with_model; data that is no list (a
\* mapping's keys, a number) makes item_type(item) or the iteration a
\* TypeError
ValidateList(client, resp, model) ==
    LET data == resp.json[1] IN
    IF data.kind = "dict" /\ DOMAIN data.map = {}
    THEN Interpreted(DataResponse(Some(resp), List(<<>>)))
    ELSE IF data.kind # "list" THEN NotValidated(client, "TypeError")
    ELSE LET r == ValidateItems(ItemType(model), data.items) IN
         IF r.exc = "PydanticValidationError"
         THEN NotInterpreted(ValidationError("response", r.errors, data))
         ELSE IF r.exc # "" THEN NotValidated(client, r.exc)
         ELSE Interpreted(DataResponse(Some(resp), List(r.items)))

\* _validate_data_with_model, and the same lines of Client._validate_response;
\* a body that is no mapping makes Model(data) a TypeError
ValidateData(client, resp, model) ==
    LET data == resp.json[1] IN
    IF IsListModel(model) THEN ValidateList(client, resp, model)
    ELSE IF data.kind # "dict" THEN NotValidated(client, "TypeError")
    ELSE IF SchemaErrors(model, data.map) # {}
    THEN NotInterpreted(ValidationError("response",
                            SchemaErrors(model, data.map), data))
    ELSE Interpreted(DataResponse(Some(resp), Model(model, Dump(model, data.map))))

\* a validator that parses the body before it looks at the status
ValidateResponseParsesFirst(client, resp, model) ==
    IF resp.json = None
    THEN NotInterpreted(RequestError("JSONDecodeError"))
    ELSE IF model = "NoneType" \/ resp.status = 204
    THEN Interpreted(DataResponse(Some(resp), NoneValue))
    ELSE ValidateData(client, resp, model)

\* validate_response / Client._validate_response
validate_response(client, resp, model) ==
    IF model = "NoneType" \/ resp.status = 204
    THEN Interpreted(DataResponse(Some(resp), NoneValue))
    ELSE IF resp.json = None
    THEN NotInterpreted(RequestError("JSONDecodeError"))
    ELSE ValidateData(client, resp, model)

\* the lines of _execute_request after the transport call; of the client's
\* configuration they read raise_on_error alone, validate_response is read
\* nowhere
Interpretation(d, resp) ==
    IF d.raise_on_error /\ is_error(resp.status)
    THEN NotInterpreted(HTTPError(resp.status))
    ELSE validate_response(d.client, resp, d.response_model)

(***************************************************************************)
(* Hooks (validators.py).  A hook is user code; these are the hooks of the *)
(* repository's tests and documentation.                                   *)
(*   before  set_id      params["id"] = params.get("id", 1)                *)
(*           require_id  raises ValueError unless an id is given           *)
(*   after   same        returns the response it was given                 *)
(*           data        returns response.data                             *)
(*   wrap    through     returns handler(params)                           *)
(*           cached      returns a cached value, never calling the handler *)
(*           twice       calls handler(params), then returns a second      *)
(*                       handler(params)                                   *)
(***************************************************************************)
BeforeHook(kind, ps) ==
    CASE kind = "set_id" ->
            [ok |-> TRUE,
             params |-> Merge([k \in {"id"} |-> Text(<<"1">>)], ps)]
      [] kind = "require_id" ->
            [ok |-> "id" \in DOMAIN ps, params |-> ps]

\* apply_before_validators: each hook gets the output of the one before
RECURSIVE apply_before_validators(_, _)
apply_before_validators(validators, ps) ==
    IF validators = <<>> THEN [ok |-> TRUE, params |-> ps]
    ELSE LET r == BeforeHook(Head(validators), ps) IN
         IF r.ok THEN apply_before_validators(Tail(validators), r.params)
         ELSE r

\* the function names of the hooks, in the order dir(cls) lists them
Alphabet == <<"a_second", "first_validator", "second_validator", "z_first">>

NameRank(name) == CHOOSE i \in DOMAIN Alphabet : Alphabet[i] = name

\* the names a class body gives its hooks when it names them in the order it
\* declares them
DeclaredNames(n) == SubSeq(<<"first_validator", "second_validator">>, 1, n)

\* a registration that keeps the order of the class body
GetValidatorsDeclared(hooks, names) == hooks

\* get_validators: the hooks of a class for one endpoint, found by going
\* through dir(cls), which lists the attributes sorted by name; hooks and
\* names are in the order of the class body
RECURSIVE get_validators(_, _)
get_validators(hooks, names) ==
    IF hooks = <<>> THEN <<>>
    ELSE LET i == CHOOSE k \in DOMAIN names :
                    \A j \in DOMAIN names : NameRank(names[k]) <= NameRank(names[j])
             drop(q) == [k \in 1..(Len(q) - 1) |-> IF k < i THEN q[k] ELSE q[k + 1]]
         IN  <<hooks[i]>> \o get_validators(drop(hooks), drop(names))

\* the hooks of both classes, the resource's first
ValidatorsMerged(d) ==
    [before |-> get_validators(d.before, d.before_names) \o d.cl_before,
     after |-> d.after, wrap |-> d.wrap]

\* the hooks the endpoint method applies: those of the class the endpoint is
\* declared on (instance._validators) and, when it has none for the endpoint,
\* those the client registers under the endpoint's name
Validators(d) ==
    IF d.before # <<>> \/ d.after # <<>> \/ d.wrap # "none"
    THEN [before |-> get_validators(d.before, d.before_names),
          after |-> d.after, wrap |-> d.wrap]
    ELSE [before |-> d.cl_before, after |-> <<>>, wrap |-> "none"]

\* what a hook returns: a DataResponse (isdr) or another object
AsResponse(dr) == [isdr |-> TRUE, dr |-> dr, obj |-> NoneValue]
AsObject(v) == [isdr |-> FALSE, dr |-> DataResponse(None, NoneValue), obj |-> v]

AfterHook(kind, r) ==
    CASE kind = "same" -> r
      [] kind = "data" -> AsObject(r.dr.data)

\* apply_after_validators
RECURSIVE apply_after_validators(_, _)
apply_after_validators(validators, r) ==
    IF validators = <<>> THEN r
    ELSE apply_after_validators(Tail(validators), AfterHook(Head(validators), r))

\* the last line of the endpoint method: the hooks' result when it is a
\* DataResponse, else the response
FinalResult(hooked, resp) == IF hooked.isdr THEN hooked.dr ELSE resp

CachedUser == Model("User", [id |-> "1", name |-> "cached"])

\* the number of times the wrap hook calls the handler it is given
HandlerCalls(wrap) ==
    CASE wrap = "cached" -> 0
      [] wrap = "twice" -> 2
      [] OTHER -> 1

\* a wrapper that keeps nothing of what the hook returned
WrapResponseKeepsNothing(r) ==
    IF r.isdr THEN r.dr ELSE DataResponse(None, NoneValue)

\* the response of the endpoint method after a wrap hook: what the hook
\* returned when it is a DataResponse, else DataResponse(None, result)
WrapResponse(r) == IF r.isdr THEN r.dr ELSE DataResponse(None, r.obj)

(***************************************************************************)
(* The handler of EndpointDescriptor.__get__ (resource.py)                 *)
(***************************************************************************)
\* BaseEndpoint.__post_init__
NormalizePath(path) ==
    IF path = <<>> THEN <<"/">>
    ELSE IF path[1] # "/" THEN <<"/">> \o path ELSE path

RECURSIVE RStrip(_, _)
RStrip(s, c) ==
    IF s # <<>> /\ s[Len(s)] = c THEN RStrip(SubSeq(s, 1, Len(s) - 1), c) ELSE s

\* the items of a dict, in its order
RECURSIVE Items(_)
Items(f) ==
    IF DOMAIN f = {} THEN <<>>
    ELSE LET k == CHOOSE x \in DOMAIN f : TRUE
         IN  <<<<(<<k>>), f[k].text>>>> \o Items(Without(f, {k}))

\* path_params: the keyword arguments named like a token of the template
PathParams(d, ps) ==
    Only(ps, {k \in DOMAIN ps : <<k>> \in Range(get_path_params(d.path))})

\* the prefix and the formatted path as they are
FullPathNoStrip(prefix, formatted_path) == prefix \o formatted_path

FullPath(prefix, formatted_path) ==
    LET p == RStrip(prefix \o formatted_path, "/")
    IN  IF p = <<>> THEN <<"/">> ELSE p

\* EndpointDescriptor.__init__ keeps of the declared schemas the request
\* model alone; for an endpoint declared on a sync client class the argument
\* is the flag return_data_only of Client.__init_subclass__
DescriptorRequestModel(d) ==
    IF d.direct /\ d.client = "sync" THEN Some("return_data_only")
    ELSE d.type_args.request

\* the arguments the endpoint method hands to the handler
HandlerArgsCallTime(kw, ps) == kw

HandlerArgs(kw, ps) == ps

\* handler(params) up to the transport call; query_model, path_model,
\* headers_model and cookies_model of _execute_request keep their default
HandlerBuild(d, ps, order) ==
    LET path_params == PathParams(d, ps)
        formatted == format_path(d.path, Items(path_params))
        non_path_params == Without(ps, DOMAIN path_params)
    IN  IF ~formatted.ok
        THEN Failed([Outcome("ValueError") EXCEPT !.missing = formatted.missing])
        ELSE CASE d.client = "sync" ->
                    SyncBuild(d, FullPath(d.prefix, formatted.path),
                              DescriptorRequestModel(d), non_path_params)
               [] d.client = "async" ->
                    AsyncBuild(d, FullPath(d.prefix, formatted.path),
                               DescriptorRequestModel(d), None, None, None,
                               None, non_path_params, order)
               [] OTHER -> Failed(Outcome("AttributeError"))

(***************************************************************************)
(* The declarations: a client class, a resource, an endpoint and its hooks *)
(***************************************************************************)
NoTypeArgs ==
    [request |-> None, params |-> None, path |-> None, headers |-> None,
     cookies |-> None]

\* Endpoint[User] = GET("/users/{id}") on a resource without prefix, bound
\* to a client with the default configuration, no hooks
BaseDecl ==
    [client |-> "sync",
     direct |-> FALSE,
     marker |-> "Endpoint",
     config |-> "dict",
     prefix |-> <<>>,
     path |-> NormalizePath(<<"/", "users", "/", "{", "id", "}">>),
     type_args |-> NoTypeArgs,
     response_model |-> "User",
     ep_query_model |-> None,
     cfg_headers |-> EmptyMap,
     res_headers |-> EmptyMap,
     ep_headers |-> EmptyMap,
     ep_cookies |-> None,
     cfg_timeout |-> "30.0",
     ep_timeout |-> None,
     raise_on_error |-> TRUE,
     validate_response |-> TRUE,
     before |-> <<>>,
     before_names |-> <<>>,
     cl_before |-> <<>>,
     after |-> <<>>,
     wrap |-> "none"]

\* a resource with prefix /users and an endpoint GET("") or POST("")
Collection(d) == [d EXCEPT !.prefix = <<"/", "users">>, !.path = NormalizePath(<<>>)]

Layouts == {BaseDecl, Collection(BaseDecl)}
Clients == {"sync", "async"}
BeforeLists == {<<>>, <<"set_id">>, <<"require_id">>, <<"set_id", "require_id">>}
AfterLists == {<<>>, <<"same">>, <<"data">>}
Wraps == {"none", "through", "cached", "twice"}
Categories == {"params", "path", "headers", "cookies"}
HeaderChoices(level) == {EmptyMap, [k \in {"H"} |-> level]}

HookDecls ==
    {[d EXCEPT !.client = c, !.before = b, !.before_names = DeclaredNames(Len(b)),
               !.after = a, !.wrap = w] :
        d \in Layouts, c \in Clients, b \in BeforeLists, a \in AfterLists,
        w \in Wraps}

\* a resource constructed without a client
UnboundDecls ==
    {[d EXCEPT !.client = "none", !.before = b,
               !.before_names = DeclaredNames(Len(b))] :
        d \in Layouts, b \in {<<>>, <<"set_id">>}}

\* the class statement of a resource whose resource_config is a dict or a
\* ResourceConfig instance: the instance validates its prefix when it is
\* constructed, and BaseResource.__init_subclass__ merges the configuration
\* into the defaults as a mapping, which a ResourceConfig instance is not
DeclareResource(form, prefix) ==
    IF form = "ResourceConfig"
    THEN IF prefix # <<>> /\ (prefix[1] # "/" \/ prefix[Len(prefix)] = "/")
         THEN "ValueError"
         ELSE "TypeError"
    ELSE "declared"

ConfigForms == {"dict", "ResourceConfig"}
Prefixes == {<<>>, <<"/", "users">>, <<"users">>, <<"/", "users", "/">>}
EndpointPaths ==
    {<<>>, <<"/">>, <<"/", "{", "id", "}">>, <<"/", "{", "id", "}", "/">>,
     <<"all", "/">>}

\* the resources that can be declared, and their endpoints
PathDecls ==
    {d \in {[BaseDecl EXCEPT !.client = c, !.config = f, !.prefix = p,
                             !.path = NormalizePath(q)] :
                c \in Clients, f \in ConfigForms, p \in Prefixes,
                q \in EndpointPaths} :
        DeclareResource(d.config, d.prefix) = "declared"}

\* two before hooks under every pair of function names
NamePairs ==
    {<<a, b>> : a, b \in Range(Alphabet)} \ {<<a, a>> : a \in Range(Alphabet)}

OrderDecls ==
    {[BaseDecl EXCEPT !.client = c, !.before = b, !.before_names = n] :
        c \in Clients,
        b \in {<<"set_id", "require_id">>, <<"require_id", "set_id">>},
        n \in NamePairs}

\* hooks registered under the endpoint's name on the resource and on the
\* client
PrecedenceDecls ==
    {[BaseDecl EXCEPT !.client = c, !.before = b,
                      !.before_names = DeclaredNames(Len(b)),
                      !.after = a, !.cl_before = cb] :
        c \in Clients, b \in {<<>>, <<"require_id">>}, a \in {<<>>, <<"same">>},
        cb \in {<<>>, <<"set_id">>}}

\* endpoints with static cookies
CookieChoices == {None, Some([sid |-> "static", theme |-> "dark"])}

CookieDecls ==
    {[Collection(BaseDecl) EXCEPT !.client = c, !.ep_cookies = ck] :
        c \in Clients, ck \in CookieChoices}

\* the declared return shapes and the error policy of the client
ResponseModels == {"User", "NoneType", "list[User]"}

ResponseDecls ==
    {[Collection(BaseDecl) EXCEPT
        !.client = c, !.response_model = m, !.raise_on_error = p,
        !.validate_response = v, !.after = a] :
        c \in Clients, m \in ResponseModels, p \in BOOLEAN, v \in BOOLEAN,
        a \in {<<>>, <<"data">>}}

\* the return-shape markers, on a resource and on the client class itself
Markers == {"Endpoint", "ResponseEndpoint"}

MarkerDecls ==
    {[BaseDecl EXCEPT !.client = c, !.direct = dr, !.marker = mk] :
        c \in Clients, dr \in BOOLEAN, mk \in Markers}

\* Endpoint[User, CreateUser]
BodyDecls ==
    {[Collection(BaseDecl) EXCEPT !.client = c, !.type_args.request = m] :
        c \in Clients, m \in {None, Some("CreateUser")}}

\* Endpoint[User, None, PageQuery] and the like, and GET(query_model=PageQuery)
SchemaDecls ==
    {[Collection(BaseDecl) EXCEPT !.client = c, !.ep_query_model = q] :
        c \in Clients, q \in {None, Some("PageQuery")}}
    \cup
    {[Collection(BaseDecl) EXCEPT
        !.client = c, !.type_args[cat] = Some("PageQuery")] :
        c \in Clients, cat \in Categories}

HeaderDecls ==
    {[Collection(BaseDecl) EXCEPT
        !.client = c, !.cfg_headers = ch, !.res_headers = rh, !.ep_headers = eh] :
        c \in Clients, ch \in HeaderChoices("client"),
        rh \in HeaderChoices("resource"), eh \in HeaderChoices("endpoint")}

(***************************************************************************)
(* The calls: keyword arguments over the keys a family of declarations is  *)
(* called with, at most MaxArgs of them                                    *)
(***************************************************************************)
MaxArgs == 2

UserMap == [name |-> "X", email |-> "x@example.com"]

KwValues(key) ==
    CASE key = "id" -> {Text(<<"1">>), Text(<<"x", "/", "y">>)}
      [] key = "page" -> {Text(<<"1">>)}
      [] key = "path" -> {Dict([id |-> "1"]), Dict([page |-> "BAD"])}
      [] key = "params" -> {Dict([page |-> "1"]), Dict([page |-> "BAD"])}
      [] key = "headers" -> {Dict([H |-> "call"]), Dict([page |-> "BAD"])}
      [] key = "cookies" ->
            {Dict([sid |-> "call"]), Dict([page |-> "BAD"]), Dict(EmptyMap)}
      [] key = "json" ->
            {Dict(UserMap), Dict([name |-> "X"]), Dict([name |-> "BAD"]),
             Model("CreateUser", UserMap), Model("Other", [name |-> "X"])}
      [] key = "data" ->
            {Dict(UserMap), Dict([name |-> "X"]), Model("CreateUser", UserMap)}
      [] key = "files" -> {Text(<<"upload">>)}
      [] key = "content" -> {Text(<<"raw">>)}
      [] key = "timeout" -> {Text(<<"5.0">>)}

NoArgs == [k \in {} |-> NoneValue]

RECURSIVE ArgsOver(_)
ArgsOver(keys) ==
    IF keys = {} THEN {NoArgs}
    ELSE LET k == CHOOSE x \in keys : TRUE
             rest == ArgsOver(keys \ {k})
         IN  rest \cup {Merge(r, [x \in {k} |-> v]) : r \in rest, v \in KwValues(k)}

Args(keys) == {kw \in ArgsOver(keys) : Cardinality(DOMAIN kw) <= MaxArgs}

Families ==
    {[decls |-> HookDecls, keys |-> {"id", "path", "page"}],
     [decls |-> UnboundDecls, keys |-> {"id", "path", "json"}],
     [decls |-> OrderDecls, keys |-> {"id"}],
     [decls |-> PathDecls, keys |-> {"id"}],
     [decls |-> PrecedenceDecls, keys |-> {"id"}],
     [decls |-> BodyDecls,
      keys |-> {"json", "data", "files", "content", "timeout", "page"}],
     [decls |-> CookieDecls, keys |-> {"cookies", "page"}],
     [decls |-> ResponseDecls, keys |-> {"page"}],
     [decls |-> MarkerDecls, keys |-> {"id", "json"}],
     [decls |-> SchemaDecls, keys |-> {"params", "path", "headers", "cookies", "page"}],
     [decls |-> HeaderDecls, keys |-> {"headers", "page"}]}

Decls == UNION {F.decls : F \in Families}

ArgsFor(d) == UNION {Args(F.keys) : F \in {G \in Families : d \in G.decls}}

(***************************************************************************)
(* What the transport does with a request: a response, or an exception     *)
(***************************************************************************)
Response(status, json) == [exc |-> "", status |-> status, json |-> json]
Raises(exc) == [exc |-> exc, status |-> 0, json |-> None]

John == Dict([id |-> "1", name |-> "John"])

\* bodies: a user, a user without name, no JSON, a number, arrays of users
\* (valid, two elements failing on different fields, a number among them)
TransportResults ==
    {Response(200, Some(John)),
     Response(200, Some(Dict([id |-> "1"]))),
     Response(200, None),
     Response(200, Some(Text(<<"1">>))),
     Response(200, Some(List(<<John, John>>))),
     Response(200, Some(List(<<John, Dict([id |-> "1"]), Dict([name |-> "X"])>>))),
     Response(200, Some(List(<<Text(<<"1">>)>>))),
     Response(204, None),
     Response(204, Some(John)),
     Response(404, Some(Dict([detail |-> "Not found"]))),
     Response(500, None),
     Raises("TimeoutException"),
     Raises("ConnectError")}

\* the cancellation of an awaiting call: asyncio.CancelledError is raised at
\* the await of the transport call
Cancellations == {Raises("CancelledError")}

TransportOutcomes(client) ==
    TransportResults \cup (IF client = "async" THEN Cancellations ELSE {})

\* the except clauses catch the timeout alone
IsHttpxRequestErrorTimeoutOnly(exc) == exc = "TimeoutException"

\* httpx.TimeoutException and the other subclasses of httpx.RequestError
IsHttpxRequestError(exc) == exc \in {"TimeoutException", "ConnectError"}

\* the except clauses of _execute_request end the call: nothing is retried
PcRetryTransport == "built"

PcAfterTransportError == "done"

(***************************************************************************)
(* The endpoint call, step by step                                         *)
(***************************************************************************)
Init ==
    /\ decl \in Decls
    /\ pc = "idle"
    /\ kwargs = NoArgs
    /\ params = NoArgs
    /\ request = None
    /\ sent = <<>>
    /\ response = None
    /\ result = None
    /\ outcome = None
    /\ trace = <<>>
    /\ fp_pieces = <<>>
    /\ fp_path = <<>>
    /\ fp_params = <<>>
    /\ fp_result = None
    /\ LifecycleIdle
    /\ ClassesIdle

Raise(err) ==
    /\ pc' = "done"
    /\ outcome' = Some(err)

\* the binding check of the endpoint method
IsBoundAlways(client) == TRUE

IsBound(client) == client # "none"

\* resource.get(...): the endpoint method is entered with the arguments
Call ==
    /\ pc = "idle"
    /\ \E kw \in ArgsFor(decl) :
        /\ kwargs' = kw
        /\ params' = kw
    /\ trace' = Append(trace, "call")
    /\ IF IsBound(decl.client)
       THEN pc' = "before" /\ UNCHANGED outcome
       ELSE Raise(Outcome("RuntimeError"))
    /\ UNCHANGED <<decl, request, sent, response, result, othervars>>

\* the before hooks transform the arguments
BeforeHooks ==
    /\ pc = "before"
    /\ LET r == apply_before_validators(Validators(decl).before, params) IN
        /\ params' = r.params
        /\ IF r.ok
           THEN /\ pc' = IF Validators(decl).wrap # "none" THEN "wrap"
                          ELSE "handler"
                /\ UNCHANGED outcome
           ELSE Raise(Outcome("HookError"))
    /\ trace' = IF Validators(decl).before # <<>> THEN Append(trace, "before")
                ELSE trace
    /\ UNCHANGED <<decl, kwargs, request, sent, response, result, othervars>>

\* the wrap hook takes over: it calls the handler, or returns on its own
WrapHook ==
    /\ pc = "wrap"
    /\ trace' = Append(trace, "wrap")
    /\ IF HandlerCalls(Validators(decl).wrap) = 0
       THEN /\ result' = Some(WrapResponse(AsObject(CachedUser)))
            /\ pc' = "after"
       ELSE /\ pc' = "handler"
            /\ UNCHANGED result
    /\ UNCHANGED <<decl, kwargs, params, request, sent, response, outcome, othervars>>

\* handler(params): the path is formatted and _execute_request builds the
\* request
Handler ==
    /\ pc = "handler"
    /\ \E order \in {<<"json", "data">>, <<"data", "json">>} :
        LET b == HandlerBuild(decl, HandlerArgs(kwargs, params), order) IN
        /\ trace' = trace \o (IF b.ok \/ b.err.kind # "ValueError"
                              THEN <<"format", "build">> ELSE <<"format">>)
        /\ IF b.ok
           THEN /\ request' = Some(b.req)
                /\ pc' = "built"
                /\ UNCHANGED outcome
           ELSE /\ Raise(b.err)
                /\ UNCHANGED request
    /\ UNCHANGED <<decl, kwargs, params, sent, response, result, othervars>>

\* self._httpx_client.request(...): the request goes out, and a response or
\* an httpx exception comes back
Transport ==
    /\ pc = "built"
    /\ sent' = Append(sent, request[1])
    /\ \E r \in TransportOutcomes(decl.client) :
        IF r.exc = ""
        THEN /\ response' = Some(r)
             /\ pc' = "responded"
             /\ trace' = trace \o <<"send", "recv">>
             /\ UNCHANGED outcome
        ELSE /\ pc' = PcAfterTransportError
             /\ outcome' = Some(IF IsHttpxRequestError(r.exc)
                                THEN RequestError(r.exc) ELSE Outcome(r.exc))
             /\ trace' = trace \o <<"send", "raised">>
             /\ UNCHANGED response
    /\ UNCHANGED <<decl, kwargs, params, request, result, othervars>>

\* the number of handler calls that have returned: each one whose response
\* has been interpreted, a failed interpretation ending the call
HandlerReturns == Cardinality({i \in DOMAIN trace : trace[i] = "interpret"})

\* the error policy and the response validator
Interpret ==
    /\ pc = "responded"
    /\ trace' = Append(trace, "interpret")
    /\ LET r == Interpretation(decl, response[1]) IN
        IF ~r.ok
        THEN /\ Raise(r.err)
             /\ UNCHANGED <<result, request, response>>
        ELSE IF HandlerReturns < HandlerCalls(Validators(decl).wrap) - 1
        THEN \* the wrap hook has the handler's result and calls it again
             /\ pc' = "handler"
             /\ request' = None
             /\ response' = None
             /\ UNCHANGED <<result, outcome>>
        ELSE /\ result' = Some(IF Validators(decl).wrap # "none"
                               THEN WrapResponse(AsResponse(r.dr)) ELSE r.dr)
             /\ pc' = "after"
             /\ UNCHANGED <<outcome, request, response>>
    /\ UNCHANGED <<decl, kwargs, params, sent, othervars>>

\* the after hooks, and the return of the endpoint method
AfterHooks ==
    /\ pc = "after"
    /\ trace' = IF Validators(decl).after # <<>> THEN Append(trace, "after")
                ELSE trace
    /\ LET hooked == apply_after_validators(Validators(decl).after,
                                            AsResponse(result[1]))
       IN  Raise(Returned(FinalResult(hooked, result[1])))
    /\ UNCHANGED <<decl, kwargs, params, request, sent, response, result, othervars>>

Next ==
    \/ Call
    \/ BeforeHooks
    \/ WrapHook
    \/ Handler
    \/ Transport
    \/ Interpret
    \/ AfterHooks

Spec == Init /\ [][Next]_vars

(***************************************************************************)
(* The path formatter on its own: Init draws a template and the keyword    *)
(* arguments, FormatPathCall applies format_path                           *)
(***************************************************************************)
MaxPieces == 3
MaxParams == 2

TokenPieces == {<<"{", "x", "}">>, <<"{", "y", "}">>}
LiteralPieces == {<<"/">>, <<"users">>}
BracePieces == {<<"{">>, <<"}">>}
Pieces == TokenPieces \cup LiteralPieces \cup BracePieces

PieceSeqs == UNION {[1..n -> Pieces] : n \in 0..MaxPieces}

\* the names a call may pass: the two token names and one that is no token
FpNames == {<<"x">>, <<"y">>, <<"id">>}

\* the values: plain, reserved characters, the text of a token
FpValues == {<<"1">>, <<"users", "/", "@", " ">>, <<"{", "y", "}">>,
             <<"{", "x", "}">>}

\* the keyword arguments: distinct names, in any order
FpParamSeqs ==
    {ps \in UNION {[1..n -> FpNames \X FpValues] : n \in 0..MaxParams} :
        \A i, j \in DOMAIN ps : i # j => ps[i][1] # ps[j][1]}

InitFormat ==
    /\ decl = BaseDecl
    /\ pc = "idle"
    /\ kwargs = NoArgs
    /\ params = NoArgs
    /\ request = None
    /\ sent = <<>>
    /\ response = None
    /\ result = None
    /\ outcome = None
    /\ trace = <<>>
    /\ fp_pieces \in PieceSeqs
    /\ fp_path = Flatten(fp_pieces)
    /\ fp_params \in FpParamSeqs
    /\ fp_result = None
    /\ LifecycleIdle
    /\ ClassesIdle

FormatPathCall ==
    /\ fp_result = None
    /\ fp_result' = Some(format_path(fp_path, fp_params))
    /\ UNCHANGED <<fp_pieces, fp_path, fp_params, callvars, lcvars, clsvars>>

NextFormat == FormatPathCall

SpecFormat == InitFormat /\ [][NextFormat]_vars

(***************************************************************************)
(* The life of a client: construction, with block, close (client.py,       *)
(* async_client.py)                                                        *)
(***************************************************************************)
MaxRequests == 2
MaxCloses == 3

\* the exceptions the body of a with block ends with in the tests and the
\* documentation
BodyExceptions == {"HTTPError", "ValidationError", "KeyError"}

\* self._httpx_client.close() / await self._httpx_client.aclose(): the httpx
\* client ends CLOSED whatever its state was, and nothing is raised
HttpxClose(state) == [state |-> "CLOSED", raised |-> None]

\* Client.close / AsyncClient.close
close(state) == HttpxClose(state)

\* an exit that leaves the httpx client as it is
ExitWithoutClose(state) == [state |-> state, raised |-> None, suppress |-> FALSE]

\* Client.__exit__ / AsyncClient.__aexit__: closes the client and returns
\* None, so that an exception of the body is not suppressed
ExitBlock(state) ==
    [state |-> close(state).state, raised |-> close(state).raised,
     suppress |-> FALSE]

InitLifecycle ==
    /\ decl = BaseDecl
    /\ CallIdle
    /\ FormatIdle
    /\ ClassesIdle
    /\ lc_client \in Clients
    /\ lc_pc = "created"
    /\ lc_state = "UNOPENED"
    /\ lc_requests = 0
    /\ lc_closes = 0
    /\ lc_exc = None
    /\ lc_caller = <<>>

\* with client: / async with client: __enter__ returns the client itself
EnterBlock ==
    /\ lc_pc = "created"
    /\ lc_pc' = "inside"
    /\ UNCHANGED <<lc_client, lc_state, lc_requests, lc_closes, lc_exc,
                   lc_caller, callvars, fpvars, clsvars>>

\* an endpoint call through the client opens the httpx client
RequestThroughClient ==
    /\ lc_pc \in {"created", "inside"}
    /\ lc_state # "CLOSED"
    /\ lc_requests < MaxRequests
    /\ lc_requests' = lc_requests + 1
    /\ lc_state' = "OPENED"
    /\ UNCHANGED <<lc_client, lc_pc, lc_closes, lc_exc, lc_caller, callvars,
                   fpvars, clsvars>>

\* the body of the block raises
BodyRaises ==
    /\ lc_pc = "inside"
    /\ \E e \in BodyExceptions : lc_exc' = Some(e)
    /\ lc_pc' = "raising"
    /\ UNCHANGED <<lc_client, lc_state, lc_requests, lc_closes, lc_caller,
                   callvars, fpvars, clsvars>>

\* the block is left, at its end or by the exception of its body
LeaveBlock ==
    /\ lc_pc \in {"inside", "raising"}
    /\ LET x == ExitBlock(lc_state) IN
        /\ lc_state' = x.state
        /\ lc_caller' = lc_caller \o x.raised
                            \o (IF x.suppress THEN <<>> ELSE lc_exc)
    /\ lc_pc' = "left"
    /\ UNCHANGED <<lc_client, lc_requests, lc_closes, lc_exc, callvars, fpvars,
                   clsvars>>

\* client.close() called by the program, outside a block
CloseCall ==
    /\ lc_pc \in {"created", "left"}
    /\ lc_closes < MaxCloses
    /\ lc_closes' = lc_closes + 1
    /\ lc_state' = close(lc_state).state
    /\ lc_caller' = lc_caller \o close(lc_state).raised
    /\ UNCHANGED <<lc_client, lc_pc, lc_requests, lc_exc, callvars, fpvars,
                   clsvars>>

NextLifecycle ==
    \/ EnterBlock
    \/ RequestThroughClient
    \/ BodyRaises
    \/ LeaveBlock
    \/ CloseCall

SpecLifecycle == InitLifecycle /\ [][NextLifecycle]_vars

(***************************************************************************)
(* Client classes and their resources (Client.__init_subclass__,           *)
(* Client._init_resources, and the same of AsyncClient).  Class 0 is the   *)
(* library's Client or AsyncClient; class k is the k-th class declared.    *)
(***************************************************************************)
MaxClasses == 3

ResourceNames == {"users", "posts"}

\* a class without _resource_classes in its own __dict__
NoDict == [has |-> FALSE, names |-> {}]

\* get_type_hints(cls): the annotations of the class and of its bases
RECURSIVE TypeHints(_, _)
TypeHints(classes, k) ==
    IF k = 0 THEN {}
    ELSE classes[k].own \cup TypeHints(classes, classes[k].base)

\* the class in whose __dict__ the attribute lookup cls._resource_classes
\* finds the dict, 0 when hasattr(cls, "_resource_classes") is false
RECURSIVE DictOwner(_, _, _)
DictOwner(classes, dicts, k) ==
    IF k = 0 THEN 0
    ELSE IF dicts[k].has THEN k
    ELSE DictOwner(classes, dicts, classes[k].base)

\* the loop of __init_subclass__ over the resource annotations of the new
\* class: the dict is created on the class when the lookup finds none, and
\* the entries are written into the dict the lookup finds
Registered(classes, dicts, base, own) ==
    LET hints == own \cup TypeHints(classes, base)
        owner == DictOwner(classes, dicts, base)
    IN  IF hints = {} THEN Append(dicts, NoDict)
        ELSE IF owner = 0 THEN Append(dicts, [has |-> TRUE, names |-> hints])
        ELSE Append([dicts EXCEPT ![owner].names = @ \cup hints], NoDict)

\* _init_resources: one resource instance per entry of
\* self.__class__._resource_classes
InitResources(classes, dicts, k) ==
    IF DictOwner(classes, dicts, k) = 0 THEN {}
    ELSE dicts[DictOwner(classes, dicts, k)].names

InitClasses ==
    /\ decl = BaseDecl
    /\ CallIdle
    /\ FormatIdle
    /\ LifecycleIdle
    /\ cls_root \in {"Client", "AsyncClient"}
    /\ cls_classes = <<>>
    /\ cls_dicts = <<>>
    /\ cls_instance = None

\* class K(base): with resource annotations own
DeclareClass ==
    /\ Len(cls_classes) < MaxClasses
    /\ \E base \in 0..Len(cls_classes), own \in SUBSET ResourceNames :
        /\ cls_classes' = Append(cls_classes, [base |-> base, own |-> own])
        /\ cls_dicts' = Registered(cls_classes, cls_dicts, base, own)
    /\ UNCHANGED <<cls_root, cls_instance, callvars, fpvars, lcvars>>

\* K(): a new instance of a declared class
Instantiate ==
    /\ \E k \in DOMAIN cls_classes :
        cls_instance' =
            Some([class |-> k,
                  resources |-> InitResources(cls_classes, cls_dicts, k)])
    /\ UNCHANGED <<cls_root, cls_classes, cls_dicts, callvars, fpvars, lcvars>>

NextClasses ==
    \/ DeclareClass
    \/ Instantiate

SpecClasses == InitClasses /\ [][NextClasses]_vars

(***************************************************************************)
(* Properties of the endpoint call                                         *)
(***************************************************************************)
\* the first position of a step in the trace, 0 when it did not run
Pos(step) ==
    IF \E i \in DOMAIN trace : trace[i] = step
    THEN CHOOSE i \in DOMAIN trace :
            trace[i] = step /\ \A j \in DOMAIN trace : trace[j] = step => i <= j
    ELSE 0

\* the number of times a step has been taken in the call
Count(step) == Cardinality({i \in DOMAIN trace : trace[i] = step})

Before(a, b) == Pos(b) > 0 => (Pos(a) > 0 /\ Pos(a) < Pos(b))

HasIdToken == <<"id">> \in Range(get_path_params(decl.path))

\* what the before hooks make of the call's arguments
BeforeOutput == apply_before_validators(Validators(decl).before, kwargs)

\* the text without its trailing slashes, or / when nothing else is left
WithoutTrailingSlashes(text) ==
    LET n == CHOOSE k \in 0..Len(text) :
                /\ k = 0 \/ text[k] # "/"
                /\ \A j \in (k + 1)..Len(text) : text[j] = "/"
    IN  IF n = 0 THEN <<"/">> ELSE SubSeq(text, 1, n)

\* the path of the call when the hooks' output is what gets formatted
PathFromBeforeOutput ==
    WithoutTrailingSlashes(
        decl.prefix \o
        (IF HasIdToken
         THEN Replace(decl.path, <<"{", "id", "}">>,
                      quote(BeforeOutput.params["id"].text))
         ELSE decl.path))

\* C1: in a call without a wrap hook the before hooks run first and their
\* output is what the path is formatted and the request built from; the
\* request is sent only once it is built, the response is interpreted only
\* after the transport has returned, and the after hooks run only after the
\* interpretation has succeeded.
CallStepsInOrder ==
    decl.wrap = "none" =>
        /\ decl.before # <<>> => Before("before", "format")
        /\ \A i, j \in DOMAIN trace :
            (trace[i] = "before" /\ i > j) => trace[j] = "call"
        /\ request # None => request[1].path = PathFromBeforeOutput
        /\ (pc = "done" /\ outcome[1].kind = "ValueError") =>
                (HasIdToken /\ "id" \notin DOMAIN BeforeOutput.params)
        /\ Before("format", "build")
        /\ Before("build", "send")
        /\ Pos("send") > 0 => (request # None /\ sent = <<request[1]>>)
        /\ Before("send", "recv")
        /\ Before("recv", "interpret")
        /\ Before("interpret", "after")
        /\ Pos("after") > 0 => result # None

CallStepsInOrderWitness ==
    /\ pc = "done"
    /\ decl.wrap = "none"
    /\ decl.client = "async"
    /\ decl.before = <<"set_id">>
    /\ decl.after = <<"same">>
    /\ HasIdToken
    /\ "id" \notin DOMAIN kwargs
    /\ trace = <<"call", "before", "format", "build", "send", "recv",
                 "interpret", "after">>
    /\ sent[1].path = <<"/", "users", "/", "1">>
    /\ outcome[1].kind = "return"

\* the failures that end a call before the transport is reached
FailedBeforeSending ==
    \/ outcome[1].kind \in {"RuntimeError", "HookError", "ValueError",
                            "PydanticValidationError"}
    \/ /\ outcome[1].kind \in {"ValidationError", "TypeError"}
       /\ outcome[1].param # "response"

\* C2: a call without a wrap hook sends at most one request: exactly one
\* when binding, before hooks, path formatting and request validation all
\* succeed, none when one of them fails; whatever comes back (an error
\* status, an invalid body, a transport error), nothing is sent again.
OneRequestPerCall ==
    decl.wrap = "none" =>
        /\ Len(sent) <= 1
        /\ pc = "done" =>
            /\ Len(sent) = IF request # None THEN 1 ELSE 0
            /\ FailedBeforeSending <=> request = None
            /\ outcome[1].kind \in {"HTTPError", "RequestError", "return"}
                    => Len(sent) = 1

OneRequestPerCallWitness ==
    /\ pc = "done"
    /\ decl.wrap = "none"
    /\ outcome[1].kind = "RequestError"
    /\ outcome[1].cause = "TimeoutException"
    /\ Len(sent) = 1

\* C3: a call on a resource constructed without a client raises the
\* RuntimeError of the binding check whatever the arguments are, and nothing
\* is built or sent.
UnboundCallRaises ==
    (decl.client = "none" /\ pc # "idle") =>
        /\ pc = "done"
        /\ outcome[1].kind = "RuntimeError"
        /\ request = None
        /\ sent = <<>>

UnboundCallRaisesWitness ==
    /\ decl.client = "none"
    /\ pc = "done"
    /\ HasIdToken
    /\ "id" \notin DOMAIN kwargs
    /\ outcome[1].kind = "RuntimeError"

NoHooks ==
    /\ decl.before = <<>> /\ decl.after = <<>> /\ decl.wrap = "none"
    /\ decl.cl_before = <<>>

\* C4: a call of an endpoint with template /users/{id} that passes
\* path={id: 1} goes to /users/1 and raises no missing-path-parameter error.
PathCategorySubstitutes ==
    (/\ pc = "done"
     /\ decl.client \in Clients
     /\ NoHooks
     /\ HasIdToken
     /\ kwargs = [k \in {"path"} |-> Dict([id |-> "1"])])
    => /\ outcome[1].kind # "ValueError"
       /\ Len(sent) = 1
       /\ sent[1].path = <<"/", "users", "/", "1">>

\* the call passes one body argument, a mapping that fails the body schema
FailingBodyCall(key) ==
    /\ decl.client \in Clients
    /\ NoHooks
    /\ decl.type_args.request # None
    /\ DOMAIN kwargs = {key}
    /\ kwargs[key].kind = "dict"
    /\ SchemaErrors(decl.type_args.request[1], kwargs[key].map) # {}

\* C5: with a body schema, a json or data mapping that fails the schema
\* raises ValidationError with one error per invalid or missing field and
\* the supplied mapping as raw_data.
BodyMappingRejected ==
    \A key \in {"json", "data"} :
        (pc = "done" /\ FailingBodyCall(key)) =>
            /\ outcome[1].kind = "ValidationError"
            /\ outcome[1].errors =
                    {f \in {"name", "email"} :
                        f \notin DOMAIN kwargs[key].map
                        \/ kwargs[key].map[f] = "BAD"}
            /\ outcome[1].raw = Some(kwargs[key])

\* C6: for each of params, path, headers and cookies with a declared schema,
\* a mapping that fails the schema raises ValidationError naming the
\* category, with the field errors and the rejected mapping.
CategoryMappingRejected ==
    \A cat \in Categories :
        (/\ pc = "done"
         /\ decl.client \in Clients
         /\ NoHooks
         /\ decl.type_args[cat] # None
         /\ DOMAIN kwargs = {cat}
         /\ kwargs[cat] = Dict([page |-> "BAD"]))
        => /\ outcome[1].kind = "ValidationError"
           /\ outcome[1].param = cat
           /\ outcome[1].errors = {"page"}
           /\ outcome[1].raw = Some(kwargs[cat])

\* C7: with a body schema, an instance of the schema passed as json or data
\* is accepted as it is and its field values are the body sent.
BodyInstanceAccepted ==
    \A key \in {"json", "data"} :
        (/\ pc = "done"
         /\ decl.client \in Clients
         /\ NoHooks
         /\ decl.type_args.request = Some("CreateUser")
         /\ DOMAIN kwargs = {key}
         /\ kwargs[key] = Model("CreateUser", UserMap))
        => /\ Len(sent) = 1
           /\ sent[1][key] = Some(Dict(UserMap))

\* the headers given at call time, when a mapping
CallHeaders ==
    IF "headers" \in DOMAIN kwargs THEN kwargs["headers"].map ELSE EmptyMap

\* C10: the headers sent are client headers, overlaid by resource headers,
\* overlaid by endpoint headers, overlaid by call-time headers.
HeadersMergedByPriority ==
    Len(sent) >= 1 =>
        sent[1].headers =
            Merge(Merge(Merge(decl.cfg_headers, decl.res_headers),
                        decl.ep_headers),
                  CallHeaders)

(***************************************************************************)
(* Properties of format_path                                               *)
(***************************************************************************)
\* the template is literals and {name} tokens, with no other brace
WellFormedTemplate ==
    \A i \in DOMAIN fp_pieces : fp_pieces[i] \in TokenPieces \cup LiteralPieces

TemplateTokens ==
    {<<fp_pieces[i][2]>> : i \in {j \in DOMAIN fp_pieces : fp_pieces[j] \in TokenPieces}}

ValueOf(name) ==
    fp_params[CHOOSE i \in DOMAIN fp_params : fp_params[i][1] = name][2]

\* the percent-encoding of each value, written out
Encoded(v) ==
    CASE v = <<"1">> -> <<"1">>
      [] v = <<"users", "/", "@", " ">> ->
            <<"users", "%", "2", "F", "%", "4", "0", "%", "2", "0">>
      [] v = <<"{", "y", "}">> -> <<"%", "7", "B", "y", "%", "7", "D">>
      [] v = <<"{", "x", "}">> -> <<"%", "7", "B", "x", "%", "7", "D">>

\* the template with every token replaced, at once, by its encoded value
SubstitutedTemplate ==
    Flatten([i \in DOMAIN fp_pieces |->
                IF fp_pieces[i] \in TokenPieces
                THEN Encoded(ValueOf(<<fp_pieces[i][2]>>))
                ELSE fp_pieces[i]])

\* C8: for a template of N distinct tokens and values for all of them,
\* format_path returns a path without "{" or "}" in which every value stands
\* percent-encoded, also when a value holds the text of another token.
FormatPathEncodesAll ==
    (fp_result # None /\ WellFormedTemplate
        /\ TemplateTokens \subseteq ParamNames(fp_params)) =>
        /\ fp_result[1].ok
        /\ "{" \notin Range(fp_result[1].path)
        /\ "}" \notin Range(fp_result[1].path)
        /\ fp_result[1].path = SubstitutedTemplate

FormatPathEncodesAllWitness ==
    /\ fp_result # None
    /\ fp_pieces = <<(<<"{", "x", "}">>), (<<"/">>), (<<"{", "y", "}">>)>>
    /\ fp_params = <<(<<(<<"x">>), (<<"{", "y", "}">>)>>),
                     (<<(<<"y">>), (<<"users", "/", "@", " ">>)>>)>>
    /\ fp_result[1].ok
    /\ fp_result[1].path =
            <<"%", "7", "B", "y", "%", "7", "D", "/",
              "users", "%", "2", "F", "%", "4", "0", "%", "2", "0">>

\* C9: with values for fewer than all tokens format_path fails, and the
\* error names exactly the tokens that were not supplied; names that are no
\* token never make it fail.
FormatPathNamesMissing ==
    (fp_result # None /\ WellFormedTemplate) =>
        LET missing == TemplateTokens \ ParamNames(fp_params) IN
        /\ missing # {} => (~fp_result[1].ok /\ fp_result[1].missing = missing)
        /\ missing = {} => fp_result[1].ok

FormatPathNamesMissingWitness ==
    /\ fp_result # None
    /\ fp_pieces = <<(<<"{", "x", "}">>), (<<"/">>), (<<"{", "y", "}">>)>>
    /\ ParamNames(fp_params) = {<<"x">>, <<"id">>}
    /\ ~fp_result[1].ok
    /\ fp_result[1].missing = {<<"y">>}

(***************************************************************************)
(* Properties of the request sent                                          *)
(***************************************************************************)
StaticCookies == IF decl.ep_cookies # None THEN decl.ep_cookies[1] ELSE EmptyMap

CallCookies ==
    IF "cookies" \in DOMAIN kwargs THEN kwargs["cookies"].map ELSE EmptyMap

SentCookies == IF sent[1].cookies = None THEN EmptyMap ELSE sent[1].cookies[1]

\* C11: the cookies sent are the endpoint's static cookies overlaid key by
\* key by the call-time cookies: a call-time cookie replaces the static one
\* of its name and the other static cookies are still sent.
CookiesMergedByKey ==
    (Len(sent) >= 1 /\ NoHooks) =>
        SentCookies = Merge(StaticCookies, CallCookies)

\* the names of the query parameters sent
SentParams == IF sent[1].params = None THEN {} ELSE DOMAIN sent[1].params[1]

NonQueryKeys ==
    {"json", "data", "files", "content", "headers", "cookies", "timeout"}

\* C12: an argument under json, data, files, content, headers, cookies or
\* timeout is never among the query parameters sent, and the body forms and
\* the timeout stand in their own part of the request.
CategoryKeysNotInQuery ==
    (Len(sent) >= 1 /\ NoHooks) =>
        \A k \in NonQueryKeys \cap DOMAIN kwargs :
            /\ k \notin SentParams
            /\ k \in {"json", "data", "files", "content"} => sent[1][k] # None
            /\ k = "timeout" => <<sent[1].timeout>> = kwargs[k].text

\* C13: a keyword argument that is no token of the template and no category
\* key (page=1) is a query parameter of the request sent.
OtherKeywordsAreQuery ==
    (Len(sent) >= 1 /\ NoHooks /\ "page" \in DOMAIN kwargs) =>
        /\ "page" \in SentParams
        /\ sent[1].params[1]["page"] = kwargs["page"]

(***************************************************************************)
(* Properties of the interpretation of the response                        *)
(***************************************************************************)
IsErrorStatus == response[1].status \in 400..599

NoContentYieldsNone ==
    (/\ Pos("interpret") > 0
     /\ Count("interpret") = Count("recv")
     /\ response # None
     /\ \/ response[1].status = 204
        \/ decl.response_model = "NoneType" /\ ~IsErrorStatus)
    => /\ result = Some(DataResponse(response, NoneValue))
       /\ pc = "done" => outcome[1].kind = "return"

NoContentYieldsNoneWitness ==
    /\ pc = "done"
    /\ \/ /\ decl.response_model = "User"
          /\ response = Some(Response(204, None))
       \/ /\ decl.response_model = "NoneType"
          /\ response = Some(Response(200, None))
    /\ result[1].data = NoneValue
    /\ outcome[1].kind = "return"

\* the response reached the validator with a parsed body
ParsedBody ==
    /\ pc = "done"
    /\ response # None
    /\ ~(decl.raise_on_error /\ IsErrorStatus)
    /\ response[1].status # 204
    /\ response[1].json # None

\* C16: for a return shape that is one schema, a parsed body that does not
\* satisfy the schema (fields missing, or no object at all: an array, a
\* number) raises ValidationError with the field errors and the parsed body.
InvalidBodyRaisesValidationError ==
    (/\ ParsedBody
     /\ decl.response_model = "User"
     /\ \/ response[1].json[1].kind # "dict"
        \/ \E f \in {"id", "name"} : f \notin DOMAIN response[1].json[1].map)
    => /\ outcome[1].kind = "ValidationError"
       /\ outcome[1].raw = response[1].json
       /\ response[1].json[1].kind = "dict" =>
            outcome[1].errors =
                {f \in {"id", "name"} : f \notin DOMAIN response[1].json[1].map}

\* the body is an array of objects
ArrayOfObjects ==
    /\ ParsedBody
    /\ decl.response_model = "list[User]"
    /\ response[1].json[1].kind = "list"
    /\ \A i \in DOMAIN response[1].json[1].items :
            response[1].json[1].items[i].kind = "dict"

\* the fields of User that element i of the array lacks
ElementErrors(i) ==
    {f \in {"id", "name"} : f \notin DOMAIN response[1].json[1].items[i].map}

FailingElements ==
    {i \in DOMAIN response[1].json[1].items : ElementErrors(i) # {}}

\* C17 as stated: for a return shape list[User], when several elements of
\* the array fail the schema the ValidationError carries the field errors of
\* every failing element.
ListErrorsOfEveryElement ==
    (ArrayOfObjects /\ FailingElements # {}) =>
        /\ outcome[1].kind = "ValidationError"
        /\ outcome[1].errors = UNION {ElementErrors(i) : i \in FailingElements}

\* C17 amended: for a return shape list[User] and an array of objects, the
\* schema is instantiated element by element in order; when no element fails
\* the data is one instance per element, and when some fail the
\* ValidationError carries the field errors of the first failing element
\* alone, with the whole array as raw_data.
ListErrorsOfFirstFailing ==
    ArrayOfObjects =>
        IF FailingElements = {}
        THEN /\ result # None
             /\ result[1].data.kind = "list"
             /\ Len(result[1].data.items) = Len(response[1].json[1].items)
             /\ \A i \in DOMAIN result[1].data.items :
                    result[1].data.items[i].kind = "model"
        ELSE LET first == CHOOSE i \in FailingElements :
                            \A j \in FailingElements : i <= j
             IN  /\ outcome[1].kind = "ValidationError"
                 /\ outcome[1].errors = ElementErrors(first)
                 /\ outcome[1].raw = response[1].json
                 /\ result = None

ListErrorsOfFirstFailingWitness ==
    /\ ArrayOfObjects
    /\ Cardinality(FailingElements) = 2
    /\ outcome[1].kind = "ValidationError"
    /\ outcome[1].errors = {"name"}

\* C18 as stated: whatever the transport call raises (a network error, a
\* timeout, the cancellation of the call), the caller gets a RequestError
\* whose original_exception is what was raised.
TransportFailureIsRequestError ==
    (pc = "done" /\ Pos("raised") > 0) => outcome[1].kind = "RequestError"

\* C18 amended: a timeout or another httpx.RequestError of the transport call
\* reaches the caller as a RequestError whose original_exception is it, and
\* from the transport call no other RequestError comes; the cancellation of
\* an async call is not translated: the caller gets CancelledError.
TransportErrorTranslated ==
    (pc = "done" /\ Pos("raised") > 0) =>
        /\ response = None
        /\ result = None
        /\ Len(sent) >= 1
        /\ outcome[1].kind \in {"RequestError", "CancelledError"}
        /\ outcome[1].kind = "RequestError" =>
                outcome[1].cause \in {"TimeoutException", "ConnectError"}
        /\ outcome[1].kind = "CancelledError" => decl.client = "async"
        /\ decl.client = "sync" => outcome[1].kind = "RequestError"

TransportErrorTranslatedWitness ==
    /\ pc = "done"
    /\ decl.client = "sync"
    /\ decl.wrap = "none"
    /\ trace = <<"call", "format", "build", "send", "raised">>
    /\ outcome[1].kind = "RequestError"
    /\ outcome[1].cause = "ConnectError"

(***************************************************************************)
(* Properties of the value returned                                        *)
(***************************************************************************)
\* the value the caller got is a DataResponse
ReturnsWrapper == "response" \in DOMAIN outcome[1].value[1]

\* C19: an endpoint marked Endpoint[T] returns the parsed value itself, one
\* marked ResponseEndpoint[T] returns the DataResponse holding it.
MarkerSelectsReturnShape ==
    (pc = "done" /\ NoHooks /\ outcome[1].kind = "return") =>
        IF decl.marker = "Endpoint"
        THEN ~ReturnsWrapper /\ outcome[1].value = Some(result[1].data)
        ELSE ReturnsWrapper /\ outcome[1].value = result

\* C20: what the last after hook returns is what the caller receives, a
\* DataResponse or not.
AfterHookReplacesResult ==
    (pc = "done" /\ outcome[1].kind = "return" /\ decl.after # <<>>) =>
        LET hooked == apply_after_validators(decl.after, AsResponse(result[1]))
        IN  IF hooked.isdr
            THEN ReturnsWrapper /\ outcome[1].value = Some(hooked.dr)
            ELSE ~ReturnsWrapper /\ outcome[1].value = Some(hooked.obj)


\* C21: with a wrap hook a request reaches the transport only when, and each
\* time, the hook calls the handler: a hook that returns without calling it
\* sends nothing and what it returned is the data of the result, a hook that
\* calls it once sends one request, a hook that calls it twice sends two.
WrapHookDrivesTransport ==
    decl.wrap # "none" =>
        /\ Len(sent) <= Count("format")
        /\ Count("send") = Len(sent)
        /\ Pos("format") > 0 => (Pos("wrap") > 0 /\ Pos("wrap") < Pos("format"))
        /\ pc \in {"responded", "after"} => Len(sent) = Count("format")
        /\ decl.wrap = "cached" =>
            /\ sent = <<>> /\ Count("format") = 0
            /\ (pc = "done" /\ outcome[1].kind = "return") =>
                    outcome[1].value = Some([response |-> None, data |-> CachedUser])
        /\ (decl.wrap = "through" /\ pc = "done" /\ outcome[1].kind = "return") =>
                Len(sent) = 1
        /\ (decl.wrap = "twice" /\ pc = "done" /\ outcome[1].kind = "return") =>
                Len(sent) = 2 /\ sent[1] = sent[2]

WrapHookDrivesTransportWitness ==
    /\ pc = "done"
    /\ decl.wrap = "cached"
    /\ Pos("wrap") > 0
    /\ sent = <<>>
    /\ outcome[1].kind = "return"
    /\ outcome[1].value[1].data = CachedUser

\* the hook that calls the handler twice has sent two requests
WrapHookTwiceWitness ==
    /\ pc = "done"
    /\ decl.wrap = "twice"
    /\ Len(sent) = 2
    /\ outcome[1].kind = "return"

\* the before stage of the call is over
BeforeStageDone == decl.client # "none" /\ pc \notin {"idle", "before"}

\* the before stage did to the call's arguments what running the hooks of
\* the list, in the order of the list, does
BeforeStageRan(hooks) ==
    LET r == apply_before_validators(hooks, kwargs) IN
    IF r.ok
    THEN params = r.params /\ ~(pc = "done" /\ outcome[1].kind = "HookError")
    ELSE pc = "done" /\ outcome[1].kind = "HookError"

\* C27: several before hooks declared on one class for the same endpoint run
\* in the order the class body declares them, each receiving the output of
\* the one before, whatever their function names are.
BeforeHooksInDeclarationOrder ==
    (BeforeStageDone /\ decl.before # <<>>) => BeforeStageRan(decl.before)

\* the hooks of the resource, in the order in which their names sort
ResourceHooksByName ==
    LET byName == {i \in DOMAIN decl.before :
                    \A j \in DOMAIN decl.before :
                        NameRank(decl.before_names[i]) <= NameRank(decl.before_names[j])}
    IN  IF Len(decl.before) = 2 /\ 2 \in byName
        THEN <<decl.before[2], decl.before[1]>>
        ELSE decl.before

\* the resource declares a hook of some mode for the endpoint
ResourceDeclaresHooks ==
    decl.before # <<>> \/ decl.after # <<>> \/ decl.wrap # "none"

\* C28: when the resource declares at least one hook for the endpoint only
\* the resource's hooks apply, and the hooks the client declares under the
\* endpoint's name apply only when the resource declares none.
ResourceHooksTakePrecedence ==
    BeforeStageDone =>
        /\ ResourceDeclaresHooks => BeforeStageRan(ResourceHooksByName)
        /\ ~ResourceDeclaresHooks => BeforeStageRan(decl.cl_before)
        /\ Count("before") =
                IF ResourceDeclaresHooks
                THEN (IF decl.before # <<>> THEN 1 ELSE 0)
                ELSE (IF decl.cl_before # <<>> THEN 1 ELSE 0)

\* the resource declares an after hook only and the client's before hook,
\* which would have supplied the id, is not applied
ResourceHooksTakePrecedenceWitness ==
    /\ pc = "done"
    /\ decl.before = <<>> /\ decl.after = <<"same">>
    /\ decl.cl_before = <<"set_id">>
    /\ kwargs = NoArgs
    /\ params = NoArgs
    /\ outcome[1].kind = "ValueError"

\* the resource declares no hook and the client's before hook is applied
ClientHooksApplyWitness ==
    /\ pc = "done"
    /\ ~ResourceDeclaresHooks
    /\ decl.cl_before = <<"set_id">>
    /\ kwargs = NoArgs
    /\ "id" \in DOMAIN params
    /\ outcome[1].kind = "return"

\* the endpoint's path with the arguments of the call substituted
FormattedPath == format_path(decl.path, Items(PathParams(decl, params))).path

\* C24: the path of every request is the resource prefix immediately
\* followed by the endpoint's formatted path without its trailing slashes,
\* / when nothing is left: an empty endpoint path under /users is requested
\* at /users, and no request path ends with / unless it is / itself.
RequestPathIsPrefixedAndStripped ==
    \A i \in DOMAIN sent :
        /\ sent[i].path = WithoutTrailingSlashes(decl.prefix \o FormattedPath)
        /\ sent[i].path # <<>>
        /\ sent[i].path[Len(sent[i].path)] = "/" => sent[i].path = <<"/">>
        /\ (decl.prefix = <<"/", "users">> /\ decl.path = NormalizePath(<<>>))
                => sent[i].path = <<"/", "users">>

RequestPathIsPrefixedAndStrippedWitness ==
    /\ pc = "done"
    /\ decl \in PathDecls
    /\ decl.prefix = <<"/", "users">>
    /\ decl.path = <<"/", "{", "id", "}", "/">>
    /\ "id" \in DOMAIN kwargs
    /\ Len(sent) = 1
    /\ sent[1].path = <<"/", "users", "/">> \o quote(kwargs["id"].text)

\* an endpoint / on a resource without prefix is requested at /
RootPathWitness ==
    /\ pc = "done"
    /\ decl.prefix = <<>> /\ decl.path = <<"/">>
    /\ Len(sent) = 1
    /\ sent[1].path = <<"/">>

\* the prefix is empty, or begins with / and does not end with /
PrefixWellFormed(prefix) ==
    prefix = <<>> \/ (prefix[1] = "/" /\ prefix[Len(prefix)] # "/")

\* C25: the prefix of every declared resource is empty or begins with / and
\* does not end with /, a configuration that violates this being rejected
\* when the resource is declared; no request is built from a violating
\* prefix.
PrefixAlwaysWellFormed ==
    (request # None \/ sent # <<>>) => PrefixWellFormed(decl.prefix)

\* C26: the client's validate_response policy decides whether the parsed
\* body is validated against the declared schema: when it is False the parsed
\* body is returned as it is and no response-validation error is raised, when
\* it is True a body that does not satisfy the schema is not returned.
ValidationPolicyDecides ==
    (ParsedBody /\ NoHooks /\ decl.response_model = "User") =>
        /\ ~decl.validate_response =>
            /\ outcome[1].kind = "return"
            /\ result # None /\ result[1].data = response[1].json[1]
        /\ (/\ decl.validate_response
            /\ response[1].json[1].kind = "dict"
            /\ \E f \in {"id", "name"} : f \notin DOMAIN response[1].json[1].map)
            => outcome[1].kind # "return"

\* C29: every value a successful call returns is a wrapper that holds the
\* raw transport response of the call, so that its status code, headers and
\* url can be read, with a wrap hook or an after hook as without.
ResultHoldsTransportResponse ==
    (pc = "done" /\ outcome[1].kind = "return") =>
        /\ ReturnsWrapper
        /\ outcome[1].value[1].response # None
        /\ outcome[1].value[1].response = response

\* the declaration of the call, bound to the client of the other kind
OtherClientDecl ==
    [decl EXCEPT !.client = IF decl.client = "sync" THEN "async" ELSE "sync"]

\* what the other client builds from the arguments of the call
OtherClientBuilds ==
    {HandlerBuild(OtherClientDecl, HandlerArgs(kwargs, params), order) :
        order \in {<<"json", "data">>, <<"data", "json">>}}

\* C23: for the same declaration, configuration, arguments and transport
\* response the sync client and the async client send the same request and
\* produce the same outcome: the same parsed result or an error of the same
\* kind.
SyncAndAsyncAgree ==
    (decl.client # "none" /\ decl.wrap = "none") =>
        /\ request # None =>
                \A b \in OtherClientBuilds : b.ok /\ b.req = request[1]
        /\ (pc = "done" /\ request = None /\ Pos("format") > 0) =>
                \A b \in OtherClientBuilds :
                    ~b.ok /\ b.err.kind = outcome[1].kind
        /\ (pc = "done" /\ response # None) =>
                LET r == Interpretation(OtherClientDecl, response[1]) IN
                IF r.ok
                THEN outcome[1].kind = "return" /\ result = Some(r.dr)
                ELSE outcome[1].kind = r.err.kind

InstancesCarryDeclaredResources ==
    cls_instance # None =>
        cls_instance[1].resources = TypeHints(cls_classes, cls_instance[1].class)


====
